---- MODULE Spec2Model ----
(***************************************************************************)
(* Model of the salinity-harp evaluation pipeline of mpi_icelab_routines   *)
(* (harps/salinity_harps.py): read_harp_file turns a multiplexed text log  *)
(* into a (time, module, wire_pair) dataset, calc_reference_resistance     *)
(* picks the freezing onset per wire pair, read_harp_data derives the      *)
(* salinity variables with calc_brine_salinity; of the LI-COR reader       *)
(* (licor/read_routines.py) with its cache; and of the CTD reader          *)
(* dispatch (ctds/read_routines.py).                                       *)
(*                                                                         *)
(* Text is modelled as sequences of one-character strings, so that the     *)
(* conversions of the reader (split on ':', regex strip, numeric parse)    *)
(* are computed, not assumed.  A numeric cell is <<v>>; a missing cell     *)
(* (NaN / NaT / None) is the empty tuple.  Channel values are whole        *)
(* numbers; of the six channel columns of the log the model carries the    *)
(* first one (r2, which decides the reference column) and temperature, the *)
(* other four go through the same column-wise code.                        *)
(***************************************************************************)
EXTENDS Integers, Sequences, FiniteSets, TLC

VARIABLES file, table, result, pc,
          refData, refKind, refTol, refGrad, refResult, refPc,
          brineT, brineMethod, brineResult,
          hdTemperature, hdResistance, hdGrad, hdResult,
          licorFiles, licorCache, licorClock, licorResult,
          ctdFile, ctdPos, ctdLine, ctdReads, ctdPc, ctdResult

harpVars == <<file, table, result, pc>>

refVars == <<refData, refKind, refTol, refGrad, refResult, refPc>>

brineVars == <<brineT, brineMethod, brineResult>>

hdVars == <<hdTemperature, hdResistance, hdGrad, hdResult>>

licorVars == <<licorFiles, licorCache, licorClock, licorResult>>

ctdVars == <<ctdFile, ctdPos, ctdLine, ctdReads, ctdPc, ctdResult>>

(***************************************************************************)
(* Bounds of the model.                                                    *)
(***************************************************************************)
MaxLines == 2
MaxCycleLines == 3
MaxTime == 2
MaxSamples == 2
MaxClock == 2
MaxCtdLines == 2
MaxCtdReads == 4

(***************************************************************************)
(* Missing value and elementary text helpers.                              *)
(***************************************************************************)
NaN == <<>>

Num(v) == <<v>>

IsNaN(c) == c = NaN

DigitChars == <<"0", "1", "2", "3", "4", "5", "6", "7", "8", "9">>

DigitSet == {DigitChars[i] : i \in 1..Len(DigitChars)}

DigitVal(c) == (CHOOSE i \in 1..Len(DigitChars) : DigitChars[i] = c) - 1

RECURSIVE DigitsVal(_)
DigitsVal(s) ==
    IF s = <<>> THEN 0
    ELSE 10 * DigitsVal(SubSeq(s, 1, Len(s) - 1)) + DigitVal(s[Len(s)])

AllDigits(s) == Len(s) > 0 /\ \A i \in 1..Len(s) : s[i] \in DigitSet

\* A text that a float parser accepts: an optional leading minus sign and digits.
IsNumberText(s) ==
    IF Len(s) > 0 /\ s[1] = "-" THEN AllDigits(Tail(s)) ELSE AllDigits(s)

ParseNumber(s) ==
    IF s[1] = "-" THEN Num(0 - DigitsVal(Tail(s))) ELSE Num(DigitsVal(s))

\* df.replace(regex=True, to_replace=r"[^0-9.]", value=""): every character that
\* is not a digit or a dot is removed, the minus sign included.
KeepChar(c) == c \in DigitSet \cup {"."}

StripNonNumeric(s) == SelectSeq(s, KeepChar)

\* pd.to_numeric(..., errors='coerce') of one text cell.
ToNumeric(s) == IF IsNumberText(s) THEN ParseNumber(s) ELSE NaN

\* str.split(':', 2): at most two splits, the remainder stays in the last part.
RECURSIVE SplitColon(_, _)
SplitColon(s, n) ==
    IF n = 0 \/ ~(\E i \in 1..Len(s) : s[i] = ":") THEN <<s>>
    ELSE LET k == CHOOSE i \in 1..Len(s) :
                     s[i] = ":" /\ \A j \in 1..(i - 1) : s[j] # ":"
         IN  <<SubSeq(s, 1, k - 1)>> \o SplitColon(SubSeq(s, k + 1, Len(s)), n - 1)

\* pd.to_datetime(..., errors='coerce'): an ISO time stamp gives its instant,
\* anything else NaT.
ToDatetime(tok) == IF tok[1] = "iso" THEN Num(tok[2]) ELSE NaN

(***************************************************************************)
(* The log file: a sequence of lines.  A data line is the list of its      *)
(* space-separated tokens (device, time, r2, temperature); a comment line  *)
(* starts with '#'.                                                        *)
(***************************************************************************)
Vars == <<"r2", "temperature">>

VarSet == {Vars[i] : i \in 1..Len(Vars)}

Garbled == <<"garbled", 0>>

Iso(t) == <<"iso", t>>

CommentLine ==
    [kind |-> "comment", device |-> <<"#">>, time |-> Garbled,
     r2 |-> <<>>, temperature |-> <<>>]

DataLine(d, t, r, c) ==
    [kind |-> "data", device |-> d, time |-> t, r2 |-> r, temperature |-> c]

\* pd.read_csv(..., comment='#'): comment lines give no row.  The rows are
\* named by their line number in the file.
CsvRows(f) == {i \in 1..Len(f) : f[i].kind = "data"}

\* read_csv infers one type per column: a column is numeric only when every
\* token of the column parses as a number, otherwise all its cells stay text.
ColIsNumeric(f, v) == \A i \in CsvRows(f) : IsNumberText(f[i][v])

\* The value of channel v in row i after read_csv, the regex replacement and
\* pd.to_numeric: a numeric column is untouched by the text replacement, a text
\* column is stripped and then coerced.
ChannelValue(f, i, v) ==
    IF ColIsNumeric(f, v) THEN ParseNumber(f[i][v])
    ELSE ToNumeric(StripNonNumeric(f[i][v]))

\* df['device'].str.split(':', 2, expand=True).iloc[:, :2]: the frame has as
\* many columns as the longest split; 0 -> 'module', 1 -> 'wire_pair'.
DeviceParts(f, i) == SplitColon(f[i].device, 2)

HasDeviceColumn(f, k) == \E i \in CsvRows(f) : Len(DeviceParts(f, i)) >= k

\* module / wire_pair are always text columns: stripped, then coerced.  A row
\* whose split is shorter holds None there, which coerces to NaN.
LabelValue(f, i, k) ==
    IF Len(DeviceParts(f, i)) >= k
    THEN ToNumeric(StripNonNumeric(DeviceParts(f, i)[k]))
    ELSE NaN

\* Rows that survive df.dropna(subset=['time']).
TimedRows(f) == {i \in CsvRows(f) : ~IsNaN(ToDatetime(f[i].time))}

\* Variant of IndexedRows that drops every record with a field that did not
\* coerce to a number (a dropna after to_numeric).
IndexedRowsDropNonNumeric(f) ==
    {[src |-> i,
      time |-> ToDatetime(f[i].time)[1],
      module |-> LabelValue(f, i, 1),
      wire_pair |-> LabelValue(f, i, 2),
      vals |-> [v \in VarSet |-> ChannelValue(f, i, v)]] :
        i \in {j \in TimedRows(f) : \A v \in VarSet : ~IsNaN(ChannelValue(f, j, v))}}

\* The frame indexed by (time, module, wire_pair) after set_index / sort_index.
IndexedRows(f) ==
    {[src |-> i,
      time |-> ToDatetime(f[i].time)[1],
      module |-> LabelValue(f, i, 1),
      wire_pair |-> LabelValue(f, i, 2),
      vals |-> [v \in VarSet |-> ChannelValue(f, i, v)]] : i \in TimedRows(f)}

(***************************************************************************)
(* Regularisation: unstack, reference rows, backward fill, restack.        *)
(***************************************************************************)
Times(tb) == {r.time : r \in tb}

ModuleLabels(tb) == {r.module : r \in tb}

WireLabels(tb) == {r.wire_pair : r \in tb}

\* unstack raises "Index contains duplicate entries" when two rows share a key.
HasDuplicateIndex(tb) ==
    \E a \in tb : \E b \in tb :
        /\ a.src # b.src
        /\ a.time = b.time /\ a.module = b.module /\ a.wire_pair = b.wire_pair

\* Order of the unstacked column labels: a NaN label comes first, then the
\* numbers in ascending order.
FirstLabel(S) ==
    IF NaN \in S THEN NaN
    ELSE CHOOSE x \in S : \A y \in S : x[1] <= y[1]

NoCell == [val |-> NaN, src |-> 0]

\* One cell of df.unstack(level=1).unstack(level=1): the value of the row
\* with that key, missing when there is none.
WideCell(tb, t, v, m, w) ==
    LET hit == {r \in tb : r.time = t /\ r.module = m /\ r.wire_pair = w}
    IN  IF hit = {} THEN NoCell
        ELSE LET r == CHOOSE r \in hit : TRUE
             IN  [val |-> r.vals[v], src |-> IF IsNaN(r.vals[v]) THEN 0 ELSE r.src]

\* lastcol_idx = df.iloc[:, 0].dropna().index: the times at which the first
\* column (first variable, first module, first wire pair) holds a value.
LastcolIdx(tb) ==
    {t \in Times(tb) :
        ~IsNaN(WideCell(tb, t, Vars[1], FirstLabel(ModuleLabels(tb)),
                        FirstLabel(WireLabels(tb))).val)}

\* df.fillna(method='bfill'): a missing cell takes the next value below it in
\* its column, however far down; it stays missing when there is none.
BfillCell(tb, t, v, m, w) ==
    LET later == {u \in Times(tb) : u >= t /\ ~IsNaN(WideCell(tb, u, v, m, w).val)}
    IN  IF later = {} THEN NoCell
        ELSE WideCell(tb, CHOOSE u \in later : \A x \in later : u <= x, v, m, w)

\* df.loc[lastcol_idx]: the rows kept (the trailing [:-1] is commented out).
KeptTimes(tb) == LastcolIdx(tb)

Unwrap(S) == {x[1] : x \in S \ {NaN}}

DsKeys(tb) ==
    KeptTimes(tb) \X Unwrap(ModuleLabels(tb)) \X Unwrap(WireLabels(tb)) \X VarSet

\* df.stack(level=1).stack().to_xarray(): coordinates and one cell per
\* (time, module, wire_pair, variable); index levels never hold NaN.
ToXarray(tb) ==
    [time |-> KeptTimes(tb),
     module |-> Unwrap(ModuleLabels(tb)),
     wire_pair |-> Unwrap(WireLabels(tb)),
     val |-> [k \in DsKeys(tb) |-> BfillCell(tb, k[1], k[4], Num(k[2]), Num(k[3])).val]]

\* For each cell of the dataset, the line of the file its value was read from
\* (0 for a missing cell).
Provenance(tb) ==
    [k \in DsKeys(tb) |-> BfillCell(tb, k[1], k[4], Num(k[2]), Num(k[3])).src]

EmptyDs == [time |-> {}, module |-> {}, wire_pair |-> {}, val |-> <<>>]

Raise(e) == [status |-> "error", error |-> e, ds |-> EmptyDs, src |-> <<>>]

NoResult == [status |-> "none", error |-> "", ds |-> EmptyDs, src |-> <<>>]

\* read_harp_file as a function of the file content.
ReadHarpFileResult(f) ==
    IF ~HasDeviceColumn(f, 1) \/ ~HasDeviceColumn(f, 2) THEN Raise("KeyError")
    ELSE IF HasDuplicateIndex(IndexedRows(f)) THEN Raise("ValueError")
    ELSE IF IndexedRows(f) = {} THEN Raise("IndexError")
    ELSE [status |-> "ok", error |-> "", ds |-> ToXarray(IndexedRows(f)),
          src |-> Provenance(IndexedRows(f))]

(***************************************************************************)
(* The lines a logger writes in the model.                                 *)
(***************************************************************************)
TimeTokens == {Iso(t) : t \in 1..MaxTime} \cup {Garbled}

\* Device tokens "<module>:<wire_pair>:"; "x:0:" is a placeholder module.
DeviceTokens == {<<"0", ":", "0", ":">>, <<"0", ":", "1", ":">>, <<"x", ":", "0", ":">>}

R2Tokens == {<<"5">>, <<"a", "b">>}

TempTokens == {<<"-", "2">>, <<"e", "r", "r">>}

Lines ==
    {DataLine(d, t, r, c) : d \in DeviceTokens, t \in TimeTokens,
                           r \in R2Tokens, c \in TempTokens}
    \cup {CommentLine}

\* Well-formed lines of two modules with two wire pairs each.
CycleDevices ==
    {<<"0", ":", "0", ":">>, <<"0", ":", "1", ":">>,
     <<"1", ":", "0", ":">>, <<"1", ":", "1", ":">>}

CycleLines ==
    {DataLine(d, Iso(t), <<"5">>, <<"-", "2">>) : d \in CycleDevices, t \in 1..MaxTime}

(***************************************************************************)
(* calc_reference_resistance.  The channel of one module is an array       *)
(* data[i][w] over the time index i and the wire pair w (both counted from *)
(* 1 here, from 0 in the code); the time stamp of index i is TimeCoord(i). *)
(* Derivatives are whole numbers in units of 1e-4.                         *)
(***************************************************************************)
Readings == {500, 600}

GradValues == {1, 2, 3}

WireCounts == {1, 2}

Kinds == {"median", "butterworth", "savgol"}

\* Names that eval(kind) resolves to something callable on the data: the four
\* helpers imported into the module and the builtins, of which abs stands here.
ModuleNames == {"median", "grad", "savgol", "butterworth", "abs"}

\* data_smooth = eval(kind)(data): any name bound in the module or in the
\* builtins is looked up and called; an unbound name raises NameError.
NameResolves(kind) == kind \in ModuleNames

\* Method names a caller passes: the documented ones, other bound names, and
\* an unbound one.
MethodNames == Kinds \cup {"grad", "abs", "foo"}

TimeCoord(i) == 10 * i

NumSamples(d) == Len(d)

NumWires(d) == Len(d[1])

\* The resistance of a wire pair stays or rises as the water freezes.
NonDecreasing(d) ==
    \A i \in 1..(Len(d) - 1) : \A w \in 1..Len(d[i]) : d[i][w] <= d[i + 1][w]

DataArrays ==
    {d \in UNION {[1..n -> [1..w -> Readings]] : n \in 1..MaxSamples, w \in WireCounts} :
        NonDecreasing(d)}

\* median(grad(eval(kind)(data), 20)): the smoothing and derivative helpers
\* return a series of the same length and index as their input; every array
\* of that shape is a possible smoothed derivative.
SmoothedGradients(kind, d) ==
    [1..NumSamples(d) -> [1..NumWires(d) -> {Num(g) : g \in GradValues} \cup {NaN}]]

\* Variant of SortTolerance that leaves the bounds in the order given.
SortToleranceAsGiven(tol) == tol

\* np.sort(tolerance)
SortTolerance(tol) == IF tol[1] <= tol[2] THEN tol ELSE <<tol[2], tol[1]>>

\* Variant of InTolerance with closed bounds.
InToleranceClosed(g, tol) == ~IsNaN(g) /\ g[1] >= tol[1] /\ g[1] <= tol[2]

\* np.logical_and(data_gradient > tolerance[0], data_gradient < tolerance[1]);
\* a comparison with NaN is false.
InTolerance(g, tol) == ~IsNaN(g) /\ g[1] > tol[1] /\ g[1] < tol[2]

\* grad_tol: the derivative where it is inside the tolerance, NaN elsewhere,
\* and then every value that is not NaN set to 1.
GradTol(g, tol) ==
    [i \in 1..Len(g) |->
        [w \in 1..Len(g[i]) |-> IF InTolerance(g[i][w], tol) THEN Num(1) ELSE NaN]]

\* Variant of AllNaNSlice that never reports an all-NaN column.
AllNaNSliceIgnored(gt) == FALSE

\* np.nanargmin raises "All-NaN slice encountered" when a column holds no value.
AllNaNSlice(gt) ==
    \E w \in 1..Len(gt[1]) : \A i \in 1..Len(gt) : IsNaN(gt[i][w])

\* np.nanargmin along the time axis for one column: NaN counts as +inf and the
\* first position of the minimum is returned.
NanArgMin(gt, w) ==
    LET valued == {i \in 1..Len(gt) : ~IsNaN(gt[i][w])}
        least == {i \in valued : \A j \in valued : gt[i][w][1] <= gt[j][w][1]}
    IN  IF valued = {} THEN 1
        ELSE CHOOSE i \in least : \A j \in least : i <= j

\* freezing_starts = np.nanargmin(grad_tol, axis=0): one index per wire pair.
FreezingStarts(gt) == [w \in 1..Len(gt[1]) |-> NanArgMin(gt, w)]

\* .squeeze() removes the axis of a single wire pair, and xr.DataArray(...,
\* dims=['wire_pair']) then rejects the 0-dimensional array.
SqueezedToScalar(fs) == Len(fs) = 1

\* Variant of SelectReadings with outer instead of pointwise indexing: every
\* selected index is applied to every wire pair.
SelectReadingsOuter(d, fs) ==
    [r0s |-> [j \in 1..(Len(fs) * Len(fs)) |->
                 d[fs[((j - 1) \div Len(fs)) + 1]][((j - 1) % Len(fs)) + 1]],
     time |-> [j \in 1..(Len(fs) * Len(fs)) |->
                 TimeCoord(fs[((j - 1) \div Len(fs)) + 1])]]

\* r0s = data[freezing_sel]: pointwise selection, for each wire pair the
\* unsmoothed reading at its own index, with the time stamp of that index.
SelectReadings(d, fs) ==
    [r0s |-> [w \in 1..Len(fs) |-> d[fs[w]][w]],
     time |-> [w \in 1..Len(fs) |-> TimeCoord(fs[w])]]

NoR0s == [r0s |-> <<>>, time |-> <<>>]

RefRaise(e) == [status |-> "error", error |-> e, value |-> NoR0s]

RefNoResult == [status |-> "none", error |-> "", value |-> NoR0s]

\* calc_reference_resistance(data, channel, kind, tolerance) for the smoothed
\* derivative g.
CalcReferenceResistanceResult(d, kind, tol, g) ==
    IF ~tol.isTuple THEN RefRaise("KeyError")
    ELSE IF ~NameResolves(kind) THEN RefRaise("NameError")
    ELSE LET gt == GradTol(g, SortTolerance(tol.bounds))
         IN  IF AllNaNSlice(gt) THEN RefRaise("ValueError")
             ELSE IF SqueezedToScalar(FreezingStarts(gt)) THEN RefRaise("ValueError")
             ELSE [status |-> "ok", error |-> "",
                   value |-> SelectReadings(d, FreezingStarts(gt))]

Tolerances ==
    {[isTuple |-> TRUE, bounds |-> <<1, 3>>], [isTuple |-> TRUE, bounds |-> <<3, 1>>],
     [isTuple |-> FALSE, bounds |-> <<1, 3>>]}

(***************************************************************************)
(* calc_brine_salinity: a cubic polynomial of the temperature in deg C.    *)
(* Temperatures are whole degrees and salinities are carried in units of   *)
(* 1/Scale g/kg, so that the published coefficients are whole numbers.     *)
(***************************************************************************)
Scale == 100000

Formulas == {"Assur", "N&W09", "Vancoppenolle"}

\* Variant of KnownFormula that accepts every name.
KnownFormulaAny(method) == TRUE

\* The if / elif chain over the method name; its else branch raises.
KnownFormula(method) == method \in Formulas

\* <<a, b, c, d>> in units of 1/Scale; a name that reaches no branch of the
\* chain has no coefficients, here those of the first branch.
Coefficients(method) ==
    CASE method = "N&W09" -> <<0, -2140000, -88600, -1700>>
      [] method = "Vancoppenolle" -> <<0, -1870000, -51900, -535>>
      [] OTHER -> <<-120000, -2180000, -91900, -1780>>

\* S = a + b * T + c * T ** 2 + d * T ** 3 for one cell; NaN stays NaN.
Polynomial(k, t) ==
    IF IsNaN(t) THEN NaN
    ELSE Num(k[1] + k[2] * t[1] + k[3] * t[1] * t[1] + k[4] * t[1] * t[1] * t[1])

NoSalinity == <<>>

BrineRaise(e) == [status |-> "error", error |-> e, value |-> NoSalinity]

BrineNoResult == [status |-> "none", error |-> "", value |-> NoSalinity]

\* calc_brine_salinity(T, method) for a one-dimensional T.
CalcBrineSalinityResult(T, method) ==
    IF ~KnownFormula(method) THEN BrineRaise("KeyError")
    ELSE [status |-> "ok", error |-> "",
          value |-> [i \in 1..Len(T) |-> Polynomial(Coefficients(method), T[i])]]

Temperatures == {Num(-2), Num(-1), Num(0), NaN}

TemperatureSeries == UNION {[1..n -> Temperatures] : n \in 1..MaxSamples}

FormulaNames == Formulas \cup {"assur", "Notz", ""}

(***************************************************************************)
(* read_harp_data: the derived variables of one module.  A quotient is the *)
(* pair <<numerator, denominator>>; a zero denominator is a signed         *)
(* infinity, as in floating-point division.                                *)
(***************************************************************************)
\* tolerance=(1e-4, 3e-4), in the units of GradValues.
HdTolerance == [isTuple |-> TRUE, bounds |-> <<1, 3>>]

HdKind == "butterworth"

\* a / b element-wise: NaN if an operand is NaN or for 0 / 0.
Divide(a, b) ==
    IF IsNaN(a) \/ IsNaN(b) THEN NaN
    ELSE IF b[1] # 0 THEN <<a[1], b[1]>>
    ELSE IF a[1] > 0 THEN <<1, 0>>
    ELSE IF a[1] < 0 THEN <<-1, 0>>
    ELSE NaN

\* q <= 1; a comparison with NaN is false.
LeqOne(q) ==
    /\ ~IsNaN(q)
    /\ \/ q[2] > 0 /\ q[1] <= q[2]
       \/ q[2] < 0 /\ q[1] >= q[2]
       \/ q[2] = 0 /\ q[1] < 0

\* Variant of MaskLiquidFraction that keeps every quotient.
MaskLiquidFractionNone(q) == q

\* liquid_frac.where(liquid_frac <= 1)
MaskLiquidFraction(q) == IF LeqOne(q) THEN q ELSE NaN

\* 1 - liquid_frac
OneMinus(q) ==
    IF IsNaN(q) THEN NaN
    ELSE IF q[2] = 0 THEN <<0 - q[1], 0>>
    ELSE <<q[2] - q[1], q[2]>>

\* liquid_frac * S_brine, S_brine in units of 1/Scale; infinity * 0 is NaN.
Times2(q, sal) ==
    IF IsNaN(q) \/ IsNaN(sal) THEN NaN
    ELSE IF q[2] = 0 /\ sal[1] = 0 THEN NaN
    ELSE <<q[1] * sal[1], q[2]>>

\* The position on the time axis of a time stamp.
TimeIndex(t, n) == CHOOSE i \in 1..n : TimeCoord(i) = t

\* T_freeze = data['temperature'].sel(time=r0s.coords['time']): for each wire
\* pair the temperature at the time stamp of its reference resistance.
FreezeTemperature(temp, ref) ==
    [w \in 1..Len(ref.time) |-> temp[TimeIndex(ref.time[w], Len(temp))][w]]

\* data['temperature'] < T_freeze; a comparison with NaN is false.
BelowFreeze(t, tf) == ~IsNaN(t) /\ ~IsNaN(tf) /\ t[1] < tf[1]

\* T = data['temperature'].where(data['temperature'] < T_freeze)
MaskTemperature(temp, tf) ==
    [i \in 1..Len(temp) |->
        [w \in 1..Len(temp[i]) |-> IF BelowFreeze(temp[i][w], tf[w]) THEN temp[i][w] ELSE NaN]]

NoDerived ==
    [r0s |-> <<>>, freeze |-> <<>>, T |-> <<>>, brine |-> <<>>, liquid |-> <<>>,
     solid |-> <<>>, bulk |-> <<>>]

HdRaise(e) == [status |-> "error", error |-> e, value |-> NoDerived]

HdNoResult == [status |-> "none", error |-> "", value |-> NoDerived]

\* read_harp_data(file, module) from the (time, wire_pair) arrays of the
\* selected module, for the smoothed derivative g of the resistance.
ReadHarpDataResult(temp, res, g) ==
    LET ref == CalcReferenceResistanceResult(res, HdKind, HdTolerance, g)
    IN  IF ref.status = "error" THEN HdRaise(ref.error)
        ELSE LET r0s == ref.value.r0s
                 tf == FreezeTemperature(temp, ref.value)
                 T == MaskTemperature(temp, tf)
                 brine == [i \in 1..Len(T) |-> [w \in 1..Len(T[i]) |->
                              Polynomial(Coefficients("Vancoppenolle"), T[i][w])]]
                 liquid == [i \in 1..Len(res) |-> [w \in 1..Len(res[i]) |->
                              MaskLiquidFraction(Divide(r0s[w], res[i][w]))]]
             IN  [status |-> "ok", error |-> "",
                  value |-> [r0s |-> r0s, freeze |-> tf, T |-> T, brine |-> brine,
                             liquid |-> liquid,
                             solid |-> [i \in 1..Len(res) |-> [w \in 1..Len(res[i]) |->
                                          OneMinus(liquid[i][w])]],
                             bulk |-> [i \in 1..Len(res) |-> [w \in 1..Len(res[i]) |->
                                          Times2(liquid[i][w], brine[i][w])]]]]

\* Cell values of the module's dataset, and smoothed derivatives inside and
\* outside the tolerance.
ResistanceCells == {Num(0), Num(500), Num(600)}

TemperatureCells == {Num(-2), Num(-1), NaN}

GradCells == {Num(2), NaN}

Arrays(cells) ==
    UNION {[1..n -> [1..w -> cells]] : n \in 1..MaxSamples, w \in WireCounts}

SameShape(a, b) == Len(a) = Len(b) /\ Len(a[1]) = Len(b[1])

(***************************************************************************)
(* read_licor: the reader behind a module-level TTLCache keyed by the file *)
(* path.  A file is its column of pressure readings in kPa.                *)
(***************************************************************************)
\* licor_cache = TTLCache(maxsize=3, ttl=1800)
MaxSize == 3

Ttl == 1800

Paths == {"a.dat", "b.dat", "c.dat", "d.dat"}

Contents == {<<101>>, <<102>>}

\* read_licor_log(file) on the content c: the pressure column converted from
\* kPa to hPa.
ParseLicor(c) == [P |-> [i \in 1..Len(c) |-> c[i] * 10], unit |-> "hPa"]

NoDataset == [P |-> <<>>, unit |-> ""]

LicorNoResult == [status |-> "none", path |-> "", content |-> <<>>, ds |-> NoDataset]

\* An entry is live while the timer is before its expiry.
Live(e, now) == now < e.expires

\* TTLCache.expire(time): drop the entries whose time has come.
Expire(cache, now) == SelectSeq(cache, LAMBDA e : Live(e, now))

CachedPaths(cache) == {cache[i].path : i \in 1..Len(cache)}

Position(cache, p) == CHOOSE i \in 1..Len(cache) : cache[i].path = p

\* A hit moves the entry to the most-recently-used end.
Touch(cache, p) ==
    LET i == Position(cache, p)
    IN  SubSeq(cache, 1, i - 1) \o SubSeq(cache, i + 1, Len(cache)) \o <<cache[i]>>

\* cache[key] = value: make room by discarding the least recently used entry,
\* then store the value with expiry now + ttl.
Store(cache, p, ds, now) ==
    LET room == IF Len(cache) >= MaxSize THEN Tail(cache) ELSE cache
    IN  Append(room, [path |-> p, ds |-> ds, expires |-> now + Ttl])

\* @cached(cache=licor_cache): the key is the path alone.
CacheHit(cache, p) == p \in CachedPaths(cache)

(***************************************************************************)
(* read_ctd: the choice of the reader from the first non-empty line.  A    *)
(* file is its sequence of lines without the line terminators.             *)
(***************************************************************************)
Whitespace == {" ", "\t"}

\* str.rstrip()
RECURSIVE RStrip(_)
RStrip(s) ==
    IF s = <<>> \/ s[Len(s)] \notin Whitespace THEN s
    ELSE RStrip(SubSeq(s, 1, Len(s) - 1))

\* f.readline() at position pos: the line, or the empty string at the end of
\* the file, where the position stays.
ReadLine(f, pos) == IF pos <= Len(f) THEN f[pos] ELSE <<>>

Advance(f, pos) == IF pos <= Len(f) THEN pos + 1 ELSE pos

\* str.startswith(prefix)
StartsWith(s, prefix) == Len(s) >= Len(prefix) /\ SubSeq(s, 1, Len(prefix)) = prefix

SeaBirdSignature == <<"*", " ", "S", "e", "a", "-", "B", "i", "r", "d">>

RbrSignature == <<"R", "B", "R">>

\* The first position from i on whose character is outside the class.
RECURSIVE SkipWhile(_, _, _)
SkipWhile(s, i, class) ==
    IF i > Len(s) \/ s[i] \notin class THEN i ELSE SkipWhile(s, i + 1, class)

\* One group -*\d+\.\d+,\s+ starting at i: the position behind it, or 0.
GroupEnd(s, i) ==
    LET a == SkipWhile(s, i, {"-"})
        b == SkipWhile(s, a, DigitSet)
        c == SkipWhile(s, b + 1, DigitSet)
        e == SkipWhile(s, c + 1, Whitespace)
    IN  IF /\ b > a /\ b <= Len(s) /\ s[b] = "."
           /\ c > b + 1 /\ c <= Len(s) /\ s[c] = ","
           /\ e > c + 1
        THEN e ELSE 0

\* re.match(r"^#\s+(-*\d+\.\d+,\s+)+", line): the classes of neighbouring
\* pattern elements are disjoint, so the greedy match is the only one, and
\* one group suffices for the match.
MatchesSerialLog(s) ==
    LET a == SkipWhile(s, 2, Whitespace)
    IN  /\ Len(s) >= 1 /\ s[1] = "#"
        /\ a > 2
        /\ GroupEnd(s, a) # 0

\* Variant of SelectReader that hands every recognised file to read_seabird.
SelectReaderSeabirdOnly(line) ==
    IF StartsWith(line, SeaBirdSignature) \/ StartsWith(line, RbrSignature)
       \/ MatchesSerialLog(line)
    THEN "read_seabird" ELSE ""

\* The if / elif chain; without a match ctd_reader_func stays unbound.
SelectReader(line) ==
    IF StartsWith(line, SeaBirdSignature) THEN "read_seabird"
    ELSE IF StartsWith(line, RbrSignature) THEN "read_rbr"
    ELSE IF MatchesSerialLog(line) THEN "read_seabird_serial_log"
    ELSE ""

\* reader(file): what the named reader makes of the file, a dataset or the
\* error it raises.
CallReader(reader, f) == [status |-> "returned", error |-> "", reader |-> reader, file |-> f]

CtdRaise(e) == [status |-> "error", error |-> e, reader |-> "", file |-> <<>>]

CtdNoResult == [status |-> "none", error |-> "", reader |-> "", file |-> <<>>]

\* df = ctd_reader_func(file, **kwargs)
Dispatch(line, f) ==
    IF SelectReader(line) = "" THEN CtdRaise("UnboundLocalError")
    ELSE CallReader(SelectReader(line), f)

CtdLineTexts ==
    {<<>>, <<" ">>,
     <<"*", " ", "S", "e", "a", "-", "B", "i", "r", "d", " ", "S", "B", "E">>,
     <<"R", "B", "R", " ", "X", "R">>,
     <<"#", " ", "-", "1", ".", "5", ",", " ", "2", ".", "0", ",", " ">>,
     <<" ", "R", "B", "R">>,
     <<"#", " ", "1", ",", " ", "2">>}

CtdFiles == UNION {[1..n -> CtdLineTexts] : n \in 0..MaxCtdLines}

(***************************************************************************)
(* Actions.                                                                *)
(***************************************************************************)
HarpInit ==
    /\ file = <<>>
    /\ table = {}
    /\ result = NoResult
    /\ pc = "writing"

\* Before any call of calc_reference_resistance.
RefIdle ==
    /\ refData = <<>>
    /\ refKind = ""
    /\ refTol = [isTuple |-> TRUE, bounds |-> <<1, 3>>]
    /\ refGrad = <<>>
    /\ refResult = RefNoResult
    /\ refPc = "idle"

\* The arguments of one call of calc_reference_resistance.
RefInputs ==
    /\ refData \in DataArrays
    /\ refKind \in Kinds
    /\ refTol \in Tolerances
    /\ refGrad = <<>>
    /\ refResult = RefNoResult
    /\ refPc = "called"

\* The arguments of one call of calc_reference_resistance with a method name
\* other than the documented ones.
RefInputsOtherName ==
    /\ refData \in DataArrays
    /\ refKind \in MethodNames \ Kinds
    /\ refTol \in Tolerances
    /\ refGrad = <<>>
    /\ refResult = RefNoResult
    /\ refPc = "called"

\* Before any call of calc_brine_salinity.
BrineIdle ==
    /\ brineT = <<>>
    /\ brineMethod = ""
    /\ brineResult = BrineNoResult

\* The arguments of one call of calc_brine_salinity.
BrineInputs ==
    /\ brineT \in TemperatureSeries
    /\ brineMethod \in FormulaNames
    /\ brineResult = BrineNoResult

\* calc_brine_salinity(T, method)
CalcBrineSalinity ==
    /\ brineResult.status = "none"
    /\ brineT # <<>>
    /\ brineResult' = CalcBrineSalinityResult(brineT, brineMethod)
    /\ UNCHANGED <<brineT, brineMethod>>
    /\ UNCHANGED <<harpVars, refVars, hdVars, licorVars, ctdVars>>

\* Before any call of read_harp_data.
HdIdle ==
    /\ hdTemperature = <<>>
    /\ hdResistance = <<>>
    /\ hdGrad = <<>>
    /\ hdResult = HdNoResult

\* A module's dataset with any resistances and one temperature throughout.
HdInputsResistance ==
    /\ hdResistance \in Arrays(ResistanceCells)
    /\ hdTemperature = [i \in 1..Len(hdResistance) |->
                            [w \in 1..Len(hdResistance[1]) |-> Num(-1)]]
    /\ hdGrad = <<>>
    /\ hdResult = HdNoResult

\* A module's dataset with any temperatures and one resistance throughout.
HdInputsTemperature ==
    /\ hdTemperature \in Arrays(TemperatureCells)
    /\ hdResistance = [i \in 1..Len(hdTemperature) |->
                           [w \in 1..Len(hdTemperature[1]) |-> Num(500)]]
    /\ hdGrad = <<>>
    /\ hdResult = HdNoResult

\* read_harp_data(file, module)
ReadHarpData ==
    /\ hdResult.status = "none"
    /\ hdResistance # <<>>
    /\ \E g \in Arrays(GradCells) :
           /\ SameShape(g, hdResistance)
           /\ hdGrad' = g
           /\ hdResult' = ReadHarpDataResult(hdTemperature, hdResistance, g)
    /\ UNCHANGED <<hdTemperature, hdResistance>>
    /\ UNCHANGED <<harpVars, refVars, brineVars, licorVars, ctdVars>>

\* The file at a path is replaced by another content.
LicorWrite ==
    \E p \in Paths, c \in Contents :
        /\ c # licorFiles[p]
        /\ licorFiles' = [licorFiles EXCEPT ![p] = c]
        /\ UNCHANGED <<licorCache, licorClock, licorResult>>
        /\ UNCHANGED <<harpVars, refVars, brineVars, hdVars, ctdVars>>

\* Half a time-to-live passes.
LicorTick ==
    /\ licorClock < MaxClock * (Ttl \div 2)
    /\ licorClock' = licorClock + (Ttl \div 2)
    /\ UNCHANGED <<licorFiles, licorCache, licorResult>>
    /\ UNCHANGED <<harpVars, refVars, brineVars, hdVars, ctdVars>>

\* read_licor(file): currsize drops the expired entries, then the cached
\* read_licor_log answers from the cache or parses and stores.
ReadLicor ==
    \E p \in Paths :
        LET live == Expire(licorCache, licorClock)
            hit == CacheHit(live, p)
            ds == IF hit THEN live[Position(live, p)].ds ELSE ParseLicor(licorFiles[p])
        IN  /\ licorCache' = IF hit THEN Touch(live, p) ELSE Store(live, p, ds, licorClock)
            /\ licorResult' = [status |-> "ok", path |-> p, content |-> licorFiles[p],
                               ds |-> ds]
            /\ UNCHANGED <<licorFiles, licorClock>>
            /\ UNCHANGED <<harpVars, refVars, brineVars, hdVars, ctdVars>>

\* The module after import: the cache is empty; every file has some content.
LicorIdle ==
    /\ licorFiles = [p \in Paths |-> <<101>>]
    /\ licorCache = <<>>
    /\ licorClock = 0
    /\ licorResult = LicorNoResult

\* Before any call of read_ctd.
CtdIdle ==
    /\ ctdFile = <<>>
    /\ ctdPos = 1
    /\ ctdLine = <<>>
    /\ ctdReads = 0
    /\ ctdPc = "idle"
    /\ ctdResult = CtdNoResult

\* read_ctd(file) is called on some file.
CtdInputs ==
    /\ ctdFile \in CtdFiles
    /\ ctdPos = 1
    /\ ctdLine = <<>>
    /\ ctdReads = 0
    /\ ctdPc = "open"
    /\ ctdResult = CtdNoResult

\* line = f.readline().rstrip()
CtdReadFirstLine ==
    /\ ctdPc = "open"
    /\ ctdLine' = RStrip(ReadLine(ctdFile, ctdPos))
    /\ ctdPos' = Advance(ctdFile, ctdPos)
    /\ ctdReads' = ctdReads + 1
    /\ ctdPc' = "scan"
    /\ UNCHANGED <<ctdFile, ctdResult>>
    /\ UNCHANGED <<harpVars, refVars, brineVars, hdVars, licorVars>>

\* while not line: line = f.readline().rstrip()
CtdSkipEmptyLine ==
    /\ ctdPc = "scan"
    /\ ctdLine = <<>>
    /\ ctdReads < MaxCtdReads
    /\ ctdLine' = RStrip(ReadLine(ctdFile, ctdPos))
    /\ ctdPos' = Advance(ctdFile, ctdPos)
    /\ ctdReads' = ctdReads + 1
    /\ UNCHANGED <<ctdFile, ctdPc, ctdResult>>
    /\ UNCHANGED <<harpVars, refVars, brineVars, hdVars, licorVars>>

\* The reader is selected from the line and called on the file.
CtdDispatch ==
    /\ ctdPc = "scan"
    /\ ctdLine # <<>>
    /\ ctdResult' = Dispatch(ctdLine, ctdFile)
    /\ ctdPc' = "done"
    /\ UNCHANGED <<ctdFile, ctdPos, ctdLine, ctdReads>>
    /\ UNCHANGED <<harpVars, refVars, brineVars, hdVars, licorVars>>

\* The logger appends one line to the log.
WriteLine(l, max) ==
    /\ pc = "writing"
    /\ Len(file) < max
    /\ file' = Append(file, l)
    /\ UNCHANGED <<table, result, pc>>
    /\ UNCHANGED <<refVars, brineVars, hdVars, licorVars, ctdVars>>

\* read_harp_file(file)
ReadHarpFile ==
    /\ pc = "writing"
    /\ table' = IF HasDeviceColumn(file, 1) /\ HasDeviceColumn(file, 2)
                THEN IndexedRows(file) ELSE {}
    /\ result' = ReadHarpFileResult(file)
    /\ pc' = "done"
    /\ UNCHANGED file
    /\ UNCHANGED <<refVars, brineVars, hdVars, licorVars, ctdVars>>

\* calc_reference_resistance(data, resistance_channel, kind, tolerance); a call
\* that fails on its arguments never computes the derivative.
CalcReferenceResistance ==
    /\ refPc = "called"
    /\ IF refTol.isTuple /\ NameResolves(refKind)
       THEN \E g \in SmoothedGradients(refKind, refData) :
                /\ refGrad' = g
                /\ refResult' = CalcReferenceResistanceResult(refData, refKind, refTol, g)
       ELSE /\ refGrad' = refGrad
            /\ refResult' = CalcReferenceResistanceResult(refData, refKind, refTol, refGrad)
    /\ refPc' = "done"
    /\ UNCHANGED <<refData, refKind, refTol>>
    /\ UNCHANGED <<harpVars, brineVars, hdVars, licorVars, ctdVars>>

WriteAnyLine == \E l \in Lines : WriteLine(l, MaxLines)

WriteCycleLine == \E l \in CycleLines : WriteLine(l, MaxCycleLines)

vars ==
    <<file, table, result, pc, refData, refKind, refTol, refGrad, refResult, refPc,
      brineT, brineMethod, brineResult,
      hdTemperature, hdResistance, hdGrad, hdResult,
      licorFiles, licorCache, licorClock, licorResult,
      ctdFile, ctdPos, ctdLine, ctdReads, ctdPc, ctdResult>>

Idle == BrineIdle /\ HdIdle /\ LicorIdle /\ CtdIdle

Init == HarpInit /\ RefIdle /\ Idle

Next == WriteAnyLine \/ ReadHarpFile

Spec == Init /\ [][Next]_vars

NextCycle == WriteCycleLine \/ ReadHarpFile

SpecCycle == Init /\ [][NextCycle]_vars

InitRef == HarpInit /\ RefInputs /\ Idle

NextRef == CalcReferenceResistance

SpecRef == InitRef /\ [][NextRef]_vars

InitRefName == HarpInit /\ RefInputsOtherName /\ Idle

SpecRefName == InitRefName /\ [][NextRef]_vars

InitBrine == HarpInit /\ RefIdle /\ BrineInputs /\ HdIdle /\ LicorIdle /\ CtdIdle

NextBrine == CalcBrineSalinity

SpecBrine == InitBrine /\ [][NextBrine]_vars

InitFraction ==
    HarpInit /\ RefIdle /\ BrineIdle /\ HdInputsResistance /\ LicorIdle /\ CtdIdle

InitFreeze ==
    HarpInit /\ RefIdle /\ BrineIdle /\ HdInputsTemperature /\ LicorIdle /\ CtdIdle

NextData == ReadHarpData

SpecFraction == InitFraction /\ [][NextData]_vars

SpecFreeze == InitFreeze /\ [][NextData]_vars

NextLicor == LicorWrite \/ LicorTick \/ ReadLicor

SpecLicor == Init /\ [][NextLicor]_vars

InitCtd == HarpInit /\ RefIdle /\ BrineIdle /\ HdIdle /\ LicorIdle /\ CtdInputs

NextCtd == CtdReadFirstLine \/ CtdSkipEmptyLine \/ CtdDispatch

SpecCtd == InitCtd /\ [][NextCtd]_vars

TypeOK ==
    /\ pc \in {"writing", "done"}
    /\ result.status \in {"none", "ok", "error"}
    /\ (pc = "done") = (result.status # "none")
    /\ refPc \in {"idle", "called", "done"}
    /\ (refPc = "done") = (refResult.status # "none")

(***************************************************************************)
(* Properties of read_harp_file.                                           *)
(***************************************************************************)
RemoveAt(f, i) == SubSeq(f, 1, i - 1) \o SubSeq(f, i + 1, Len(f))

\* Records of the reference column (first module, first wire pair) and the
\* (module, wire_pair) columns of the unstacked frame.
RefRows(tb) ==
    {r \in tb : r.module = FirstLabel(ModuleLabels(tb))
                /\ r.wire_pair = FirstLabel(WireLabels(tb))}

RefTimes(tb) == {r.time : r \in RefRows(tb)}

Columns(tb) == ModuleLabels(tb) \X WireLabels(tb)

\* The scan cycle opened at reference time t is complete when every column
\* reports at or after t and before the next reference time.
CycleComplete(tb, t) ==
    \A c \in Columns(tb) : \E r \in tb :
        /\ r.module = c[1] /\ r.wire_pair = c[2]
        /\ r.time >= t
        /\ \A u \in RefTimes(tb) : u > t => r.time < u

LastRefTime(tb) == CHOOSE t \in RefTimes(tb) : \A u \in RefTimes(tb) : u <= t

\* A log of complete scan cycles followed by one partial trailing cycle, the
\* lines in time order, each cycle opened by its reference record.
CyclesThenPartial(f) ==
    LET tb == IndexedRows(f)
    IN  /\ Len(f) > 0
        /\ TimedRows(f) = 1..Len(f)
        /\ ~HasDuplicateIndex(tb)
        /\ \A i \in 1..(Len(f) - 1) : f[i].time[2] <= f[i + 1].time[2]
        /\ \A r \in tb : \E t \in RefTimes(tb) : t <= r.time
        /\ \A r \in tb : r.time = LastRefTime(tb) => r \in RefRows(tb)
        /\ Cardinality(RefTimes(tb)) >= 2
        /\ \A t \in RefTimes(tb) :
              IF t = LastRefTime(tb) THEN ~CycleComplete(tb, t) ELSE CycleComplete(tb, t)

\* C1: a log of N complete scan cycles followed by one partial trailing cycle
\* is read into a dataset of exactly N time steps (the partial cycle is dropped).
C1_PartialCycleDropped ==
    (pc = "done" /\ CyclesThenPartial(file)) =>
        /\ result.status = "ok"
        /\ Cardinality(result.ds.time) = Cardinality(RefTimes(table)) - 1

\* C2: a cell of the row of reference time t is filled only from a record whose
\* time lies in [t, t') with t' the next reference time; it is missing when
\* there is no such record.
C2_BackfillBounded ==
    (pc = "done" /\ result.status = "ok") =>
        \A k \in DOMAIN result.src :
            \A u \in result.ds.time :
                /\ u > k[1]
                /\ \A x \in result.ds.time : x > k[1] => u <= x
                => \/ result.src[k] = 0 /\ IsNaN(result.ds.val[k])
                   \/ /\ result.src[k] # 0
                      /\ file[result.src[k]].time[2] >= k[1]
                      /\ file[result.src[k]].time[2] < u

\* C3: when two records of one (module, wire_pair) carry the same time stamp,
\* the read succeeds and the cell holds the record that is later in the file.
C3_LaterDuplicateWins ==
    pc = "done" =>
        \A a \in table : \A b \in table :
            /\ a.src < b.src
            /\ a.time = b.time /\ a.module = b.module /\ a.wire_pair = b.wire_pair
            => /\ result.status = "ok"
               /\ \A k \in DOMAIN result.src :
                      /\ k[1] = a.time /\ Num(k[2]) = a.module /\ Num(k[3]) = a.wire_pair
                      => result.src[k] \in {0, b.src}

\* C4: a log without any valid record (empty, comments only, or only lines
\* whose time stamp does not parse) makes the read fail with a DataFormatError.
C4_NoRecordsDataFormatError ==
    (pc = "done" /\ TimedRows(file) = {}) =>
        /\ result.status = "error"
        /\ result.error = "DataFormatError"

\* C5: a line whose time stamp does not parse is discarded: the dataset read
\* from the log equals the dataset read from the log without that line.
C5_BadTimeLineRemovable ==
    pc = "done" =>
        \A i \in CsvRows(file) \ TimedRows(file) :
            ReadHarpFileResult(RemoveAt(file, i)).status = "ok"
            => /\ result.status = "ok"
               /\ result.ds = ReadHarpFileResult(RemoveAt(file, i)).ds

\* Lines with a valid time stamp and a channel field that is not a number
\* after the non-numeric characters are stripped.
NonNumericAfterStrip(f, i, v) == IsNaN(ToNumeric(StripNonNumeric(f[i][v])))

Abs(n) == IF n < 0 THEN 0 - n ELSE n

\* The number a channel text denotes once the non-numeric characters are gone
\* (its magnitude: the character filter removes a minus sign).
Magnitude(s) == ToNumeric(StripNonNumeric(s))

C7_PlaceholderDeviceSkipped ==
    pc = "done" =>
        \A i \in CsvRows(file) :
            (IsNaN(LabelValue(file, i, 1)) \/ IsNaN(LabelValue(file, i, 2)))
            => /\ \A r \in table : r.src # i
               /\ ReadHarpFileResult(RemoveAt(file, i)).status = "ok"
                  => /\ result.status = "ok"
                     /\ result.ds = ReadHarpFileResult(RemoveAt(file, i)).ds

(***************************************************************************)
(* Properties of calc_reference_resistance.                                *)
(***************************************************************************)
\* The time indices of wire pair w whose smoothed derivative lies strictly
\* between the smaller and the larger tolerance bound.
Qualifying(w) ==
    {i \in 1..NumSamples(refData) :
        /\ refGrad[i][w] # NaN
        /\ \E lo \in {refTol.bounds[1], refTol.bounds[2]} :
           \E hi \in {refTol.bounds[1], refTol.bounds[2]} :
               /\ lo <= hi
               /\ refGrad[i][w][1] > lo
               /\ refGrad[i][w][1] < hi}

C9_FirstIndexInsideTolerance ==
    (refPc = "done" /\ refResult.status = "ok") =>
        \A w \in 1..NumWires(refData) :
            /\ Qualifying(w) # {}
            /\ \E i \in Qualifying(w) :
                   /\ \A j \in Qualifying(w) : i <= j
                   /\ refResult.value.r0s[w] = refData[i][w]
                   /\ refResult.value.time[w] = TimeCoord(i)

\* Witness of C9: a wire pair whose derivative equals the lower bound at the
\* first index and is inside the interval at the second; the second reading is
\* returned and differs from the first.
C9_Witness ==
    /\ refPc = "done"
    /\ refResult.status = "ok"
    /\ NumSamples(refData) >= 2
    /\ \E w \in 1..NumWires(refData) :
           /\ refGrad[1][w] = Num(1)
           /\ refGrad[2][w] = Num(2)
           /\ refData[1][w] # refData[2][w]
           /\ refResult.value.r0s[w] = refData[2][w]
           /\ refResult.value.time[w] = TimeCoord(2)

\* C10 (as claimed): when a wire pair has no index inside the tolerance, the
\* call still returns a result.
C10_FallbackReturnsResult ==
    (refPc = "done" /\ refTol.isTuple
        /\ \E w \in 1..NumWires(refData) : Qualifying(w) = {})
    => refResult.status = "ok"

\* C10 (amended): when a wire pair has no index inside the tolerance, the call
\* raises ValueError (np.nanargmin: all-NaN slice) and returns no result.
C10_NoQualifyingIndexRaises ==
    (refPc = "done" /\ refTol.isTuple
        /\ \E w \in 1..NumWires(refData) : Qualifying(w) = {})
    => /\ refResult.status = "error"
       /\ refResult.error = "ValueError"
       /\ refResult.value = NoR0s

\* Witness of C10: two wire pairs, one with a qualifying index and one
\* without, and the call raised.
C10_Witness ==
    /\ refPc = "done"
    /\ refTol.isTuple
    /\ NumWires(refData) = 2
    /\ Qualifying(1) # {}
    /\ Qualifying(2) = {}
    /\ refResult.status = "error"

\* C11 (as claimed): a call of calc_reference_resistance with a method name
\* other than median, butterworth and savgol fails with an error, of whatever
\* class, and returns no result: no other name is accepted.
C11_OtherNameRejected ==
    (refPc = "done" /\ refKind \notin Kinds)
    => /\ refResult.status = "error"
       /\ refResult.value = NoR0s

(***************************************************************************)
(* Claims about calc_brine_salinity and read_harp_data.                    *)
(***************************************************************************)
\* C12: calc_brine_salinity with a formula name other than 'Assur', 'N&W09' and
\* 'Vancoppenolle' raises KeyError and returns no value, whatever the
\* temperatures are.
C12_UnknownFormulaRaisesKeyError ==
    (brineResult.status # "none" /\ brineMethod \notin {"Assur", "N&W09", "Vancoppenolle"})
    => /\ brineResult.status = "error"
       /\ brineResult.error = "KeyError"
       /\ brineResult.value = NoSalinity

\* Witness of C12: a call with the name 'Notz' on two temperatures, one of them
\* missing, has raised.
C12_Witness ==
    /\ brineMethod = "Notz"
    /\ Len(brineT) = 2
    /\ brineT[1] = Num(-2)
    /\ brineT[2] = NaN
    /\ brineResult.status = "error"

\* R0 / R is a number above 1 (plus infinity included).
ExceedsOne(r0, r) ==
    \/ r[1] > 0 /\ r0[1] > r[1]
    \/ r[1] < 0 /\ r0[1] < r[1]
    \/ r[1] = 0 /\ r0[1] > 0

\* C13: in the dataset read_harp_data returns every 'liquid fraction' cell is
\* missing or at most 1, a cell whose R0 / R exceeds 1 is missing, and the
\* division and the masking raise no error: read_harp_data fails only where
\* the reference-resistance detection fails.
C13_LiquidFractionAtMostOne ==
    /\ hdResult.status = "error"
       => CalcReferenceResistanceResult(hdResistance, HdKind, HdTolerance, hdGrad).status
          = "error"
    /\ hdResult.status = "ok"
       => \A i \in 1..Len(hdResistance) : \A w \in 1..Len(hdResistance[i]) :
              LET cell == hdResult.value.liquid[i][w]
                  r0 == hdResult.value.r0s[w]
                  r == hdResistance[i][w]
              IN  /\ IsNaN(cell) \/ ~ExceedsOne(Num(cell[1]), Num(cell[2]))
                  /\ IsNaN(cell) \/ cell = <<r0[1], r[1]>>
                  /\ ExceedsOne(r0, r) => IsNaN(cell)

\* Witness of C13: a returned dataset with a cell whose R0 / R is 600 / 500, a
\* cell whose resistance is zero, and a cell that kept its fraction.
C13_Witness ==
    /\ hdResult.status = "ok"
    /\ \E i \in 1..Len(hdResistance) : \E w \in 1..Len(hdResistance[i]) :
           /\ hdResult.value.r0s[w] = Num(600)
           /\ hdResistance[i][w] = Num(500)
           /\ IsNaN(hdResult.value.liquid[i][w])
    /\ \E i \in 1..Len(hdResistance) : \E w \in 1..Len(hdResistance[i]) :
           /\ hdResistance[i][w] = Num(0)
           /\ IsNaN(hdResult.value.liquid[i][w])
    /\ \E i \in 1..Len(hdResistance) : \E w \in 1..Len(hdResistance[i]) :
           hdResult.value.liquid[i][w] = <<600, 600>>

\* C14 (as claimed): the temperature handed to the brine-salinity polynomial
\* keeps every value at or below the freezing-transition temperature of its
\* wire pair, a value equal to it included, and is missing exactly where the
\* value is above it.
C14_AtOrBelowFreezeKept ==
    hdResult.status = "ok"
    => \A i \in 1..Len(hdTemperature) : \A w \in 1..Len(hdTemperature[i]) :
           LET t == hdTemperature[i][w]
               tf == hdResult.value.freeze[w]
           IN  (~IsNaN(t) /\ ~IsNaN(tf))
               => IF t[1] <= tf[1] THEN hdResult.value.T[i][w] = t
                  ELSE IsNaN(hdResult.value.T[i][w])

(***************************************************************************)
(* Claims about the tolerance of calc_reference_resistance.                *)
(***************************************************************************)
Reversed(tol) == [isTuple |-> tol.isTuple, bounds |-> <<tol.bounds[2], tol.bounds[1]>>]

\* C15: the tolerance is insensitive to the order of its two bounds: a call
\* with (a, b) gives what the call with (b, a) on the same data gives: the
\* same reading and time stamp for every wire pair, or the same error, so
\* that the reversed order raises no error of its own.
C15_ToleranceOrderInsensitive ==
    (refPc = "done" /\ refTol.isTuple)
    => refResult = CalcReferenceResistanceResult(refData, refKind, Reversed(refTol), refGrad)

\* Witness of C15: a call with the bounds in descending order that returned
\* reference resistances, one of them not from the first sample.
C15_Witness ==
    /\ refPc = "done"
    /\ refTol.isTuple
    /\ refTol.bounds[1] > refTol.bounds[2]
    /\ refResult.status = "ok"
    /\ \E w \in 1..NumWires(refData) : refResult.value.time[w] # TimeCoord(1)

(***************************************************************************)
(* Claims about read_licor.                                                *)
(***************************************************************************)
\* C16 (as claimed): every read is a function of the content the file has at
\* the time of the read: after any sequence of reads and file modifications
\* the dataset read_licor returns for a path is the one a fresh parse of the
\* path's content gives, whatever was read before.
C16_ReadIsFreshParse ==
    licorResult.status = "ok" => licorResult.ds = ParseLicor(licorResult.content)

(***************************************************************************)
(* Claims about read_ctd.                                                  *)
(***************************************************************************)
\* The first line of the file that is not empty once trailing blanks are gone.
IsFirstNonEmpty(f, i) ==
    /\ i \in 1..Len(f)
    /\ RStrip(f[i]) # <<>>
    /\ \A j \in 1..(i - 1) : RStrip(f[j]) = <<>>

\* C17: read_ctd dispatches on the first non-empty line: for a line starting
\* with '* Sea-Bird' the result is what read_seabird returns for the file, for
\* one starting with 'RBR' what read_rbr returns, for one of the serial-log
\* pattern what read_seabird_serial_log returns; empty lines before that line
\* do not change the choice.
C17_DispatchOnFirstNonEmptyLine ==
    ctdPc = "done"
    => \E i \in 1..Len(ctdFile) :
           /\ IsFirstNonEmpty(ctdFile, i)
           /\ StartsWith(ctdFile[i], SeaBirdSignature)
              => ctdResult = CallReader("read_seabird", ctdFile)
           /\ StartsWith(ctdFile[i], RbrSignature)
              => ctdResult = CallReader("read_rbr", ctdFile)
           /\ MatchesSerialLog(RStrip(ctdFile[i]))
              => ctdResult = CallReader("read_seabird_serial_log", ctdFile)

\* Witness of C17: a file whose first line is empty and whose second line
\* carries the RBR signature went to read_rbr.
C17_Witness ==
    /\ ctdPc = "done"
    /\ Len(ctdFile) = 2
    /\ ctdFile[1] = <<>>
    /\ StartsWith(ctdFile[2], RbrSignature)
    /\ ctdResult.reader = "read_rbr"

\* C18 (as claimed): read_ctd terminates on every input.  The search for the
\* first non-empty line reads each line at most once and stops at the end of
\* the file, so it never makes more reads than the file has lines plus the
\* one read that meets the end of the file.
C18_SearchStopsAtEndOfFile == ctdReads <= Len(ctdFile) + 1

(***************************************************************************)
(* Claims about the channel values of read_harp_file.                      *)
(***************************************************************************)
\* C19 (as claimed): for a line whose channel fields are all well-formed
\* numbers the stored channel values equal the numbers written, sign
\* included.
C19_WellFormedValuesKeepSign ==
    pc = "done"
    => \A r \in table :
           (\A v \in VarSet : IsNumberText(file[r.src][v]))
           => \A v \in VarSet : r.vals[v] = ParseNumber(file[r.src][v])

====
